---- MODULE Spec2Model ----
(***************************************************************************)
(* Analytics aggregation engine of the learning-management system:         *)
(*   src/models/quiz.py      Question, StudentResponse, Student, Quiz      *)
(*   src/models/syllabus.py  Topic, Syllabus                               *)
(*                                                                         *)
(* Conventions                                                             *)
(*   Optional[X]   a sequence of length <= 1: <<>> is None, <<x>> is x.    *)
(*   float         an exact rational [n |-> n, d |-> d] in lowest terms    *)
(*                 with d > 0 (rounding of IEEE doubles is not modelled).  *)
(*   exception     the record [exc |-> "ZeroDivisionError"]; it propagates *)
(*                 through arithmetic as a raise unwinds the callers.      *)
(*   str (quiz)    a TLA+ string; only == and truthiness are applied.      *)
(*   str (syllabus) a sequence of one-character strings, because lower()   *)
(*                 and the substring test `in` look inside the text.       *)
(*   ret           the value returned by the most recent call.             *)
(***************************************************************************)
EXTENDS Integers, Sequences, FiniteSets, TLC

VARIABLES questions, students, topics, ret,
          addedQuestions, addedStudents, addedTopics

vars == <<questions, students, topics, ret,
          addedQuestions, addedStudents, addedTopics>>

\* ------------------------------------------------------------------ bounds
MaxQuestions == 2
MaxStudents == 2
MaxTopics == 2

\* ------------------------------------------------------- python primitives
None == <<>>

Some(x) == <<x>>

ZeroDivisionError == [exc |-> "ZeroDivisionError"]

IsExc(x) == DOMAIN x = {"exc"}

RECURSIVE Gcd(_, _)
Gcd(a, b) == IF b = 0 THEN a ELSE Gcd(b, a % b)

Abs(a) == IF a < 0 THEN -a ELSE a

\* the float with value n/d, d # 0
Float(n, d) ==
    LET g == Gcd(Abs(n), Abs(d))
        s == IF d < 0 THEN -1 ELSE 1
    IN  [n |-> (s * n) \div g, d |-> (s * d) \div g]

FloatOfInt(i) == [n |-> i, d |-> 1]

Zero == FloatOfInt(0)

\* x / y on floats: raises ZeroDivisionError when y == 0
TrueDiv(x, y) ==
    IF IsExc(x) THEN x
    ELSE IF IsExc(y) THEN y
    ELSE IF y.n = 0 THEN ZeroDivisionError
    ELSE Float(x.n * y.d, x.d * y.n)

FloatMul(x, y) ==
    IF IsExc(x) THEN x
    ELSE IF IsExc(y) THEN y
    ELSE Float(x.n * y.n, x.d * y.d)

FloatAdd(x, y) ==
    IF IsExc(x) THEN x
    ELSE IF IsExc(y) THEN y
    ELSE Float(x.n * y.d + y.n * x.d, x.d * y.d)

FloatLess(x, y) == x.n * y.d < y.n * x.d

\* sum(f(e) for e in xs), left to right from 0
RECURSIVE PySum(_)
PySum(xs) ==
    IF xs = <<>> THEN Zero
    ELSE FloatAdd(PySum(SubSeq(xs, 1, Len(xs) - 1)), xs[Len(xs)])

\* next((x for x in xs if P(x)), None) with P given as the set of matching indices
First(xs, hits) ==
    IF hits = {} THEN None
    ELSE Some(xs[CHOOSE i \in hits : \A j \in hits : i <= j])

\* bool(s) for an Optional[str] of the quiz model: None and "" are falsy
Truthy(opt) == opt # None /\ opt[1] # ""

\* list(set(xs)): the distinct elements of xs in an order the runtime picks
ListOfSet(S) ==
    {l \in [1..Cardinality(S) -> S] : {l[i] : i \in DOMAIN l} = S}

Range(xs) == {xs[i] : i \in DOMAIN xs}

\* ----------------------------------------------------------- quiz.py model
Question(id, pts, topic) ==
    [question_id |-> id, points |-> pts, mapped_topic |-> topic]

StudentResponse(qid, earned) ==
    [question_id |-> qid, points_earned |-> earned]

Student(id, sec, resps) ==
    [student_id |-> id, section |-> sec, responses |-> resps]

\* mutant: a question worth nothing counts as fully earned
get_score_percentage_full(response, question) ==
    IF question.points = 0 THEN FloatOfInt(100)
    ELSE FloatMul(TrueDiv(FloatOfInt(response.points_earned),
                          FloatOfInt(question.points)),
                  FloatOfInt(100))

get_score_percentage(response, question) ==
    IF question.points = 0 THEN Zero
    ELSE FloatMul(TrueDiv(FloatOfInt(response.points_earned),
                          FloatOfInt(question.points)),
                  FloatOfInt(100))

\* mutant: responses to questions the quiz does not hold are left out
get_total_score_existing(student, qs) ==
    PySum([i \in DOMAIN student.responses |->
              IF \E j \in DOMAIN qs :
                     qs[j].question_id = student.responses[i].question_id
              THEN FloatOfInt(student.responses[i].points_earned)
              ELSE Zero])

get_total_score(student, qs) ==
    PySum([i \in DOMAIN student.responses |->
              FloatOfInt(student.responses[i].points_earned)])

get_total_possible(student, qs) ==
    PySum([i \in DOMAIN qs |-> FloatOfInt(qs[i].points)])

get_percentage(student, qs) ==
    LET total == get_total_possible(student, qs)
    IN  IF total = Zero THEN Zero
        ELSE FloatMul(TrueDiv(get_total_score(student, qs), total),
                      FloatOfInt(100))

get_question_by_id(qs, question_id) ==
    First(qs, {i \in DOMAIN qs : qs[i].question_id = question_id})

get_student_by_id(ss, student_id) ==
    First(ss, {i \in DOMAIN ss : ss[i].student_id = student_id})

\* mutant: a score equal to the threshold counts as weak
RECURSIVE weak_topics_le(_, _, _)
weak_topics_le(resps, qs, threshold) ==
    IF resps = <<>> THEN <<>>
    ELSE LET done == weak_topics_le(SubSeq(resps, 1, Len(resps) - 1), qs, threshold)
             response == resps[Len(resps)]
             question == get_question_by_id(qs, response.question_id)
         IN  IF question # None /\ Truthy(question[1].mapped_topic)
                /\ ~FloatLess(FloatOfInt(threshold),
                              get_score_percentage(response, question[1]))
             THEN Append(done, question[1].mapped_topic[1])
             ELSE done

\* the list weak_topics built by the loop of get_weak_topics, before set()
RECURSIVE weak_topics(_, _, _)
weak_topics(resps, qs, threshold) ==
    IF resps = <<>> THEN <<>>
    ELSE LET done == weak_topics(SubSeq(resps, 1, Len(resps) - 1), qs, threshold)
             response == resps[Len(resps)]
             question == get_question_by_id(qs, response.question_id)
         IN  IF question # None /\ Truthy(question[1].mapped_topic)
                /\ FloatLess(get_score_percentage(response, question[1]),
                             FloatOfInt(threshold))
             THEN Append(done, question[1].mapped_topic[1])
             ELSE done

\* mutant: the list is returned without going through set()
get_weak_topics_list(student, qs, threshold) ==
    {weak_topics(student.responses, qs, threshold)}

\* the lists get_weak_topics may return
get_weak_topics(student, qs, threshold) ==
    ListOfSet(Range(weak_topics(student.responses, qs, threshold)))

\* mutant: no guard for a quiz without students
get_class_average_unguarded(qs, ss) ==
    TrueDiv(PySum([i \in DOMAIN ss |-> get_percentage(ss[i], qs)]),
            FloatOfInt(Len(ss)))

get_class_average(qs, ss) ==
    IF ss = <<>> THEN Zero
    ELSE TrueDiv(PySum([i \in DOMAIN ss |-> get_percentage(ss[i], qs)]),
                 FloatOfInt(Len(ss)))

\* mutant: section labels compared without regard to case
SectionEqFold(a, b) ==
    LET fold(x) == IF x = "a" THEN "A" ELSE IF x = "b" THEN "B" ELSE x
    IN  fold(a) = fold(b)

\* s.section == section
SectionEq(a, b) == a = b

get_students_by_section(ss, section) ==
    SelectSeq(ss, LAMBDA s : SectionEq(s.section, section))

get_section_average(qs, ss, section) ==
    LET section_students == get_students_by_section(ss, section)
    IN  IF section_students = <<>> THEN Zero
        ELSE TrueDiv(PySum([i \in DOMAIN section_students |->
                               get_percentage(section_students[i], qs)]),
                     FloatOfInt(Len(section_students)))

\* the lists get_all_sections may return
get_all_sections(ss) == ListOfSet({ss[i].section : i \in DOMAIN ss})

\* ------------------------------------------------------- syllabus.py model
UpperChars == <<"A", "B", "C", "D", "E", "F", "G", "H", "I", "J", "K", "L", "M",
                "N", "O", "P", "Q", "R", "S", "T", "U", "V", "W", "X", "Y", "Z">>

LowerChars == <<"a", "b", "c", "d", "e", "f", "g", "h", "i", "j", "k", "l", "m",
                "n", "o", "p", "q", "r", "s", "t", "u", "v", "w", "x", "y", "z">>

\* str.lower() of one character
LowerChar(c) ==
    IF \E i \in DOMAIN UpperChars : UpperChars[i] = c
    THEN LowerChars[CHOOSE i \in DOMAIN UpperChars : UpperChars[i] = c]
    ELSE c

\* str.lower()
Lower(s) == [i \in DOMAIN s |-> LowerChar(s[i])]

\* sub in s: sub occurs in s as a contiguous run of characters
In(sub, s) ==
    \E start \in 1..(Len(s) - Len(sub) + 1) :
        SubSeq(s, start, start + Len(sub) - 1) = sub

Topic(name, description, subtopics) ==
    [name |-> name, description |-> description, subtopics |-> subtopics]

\* mutant: only name and description are searched
contains_keyword_no_subtopics(topic, keyword) ==
    LET keyword_lower == Lower(keyword)
    IN  IF In(keyword_lower, Lower(topic.name)) THEN TRUE
        ELSE topic.description # None /\ topic.description[1] # <<>>
             /\ In(keyword_lower, Lower(topic.description[1]))

contains_keyword(topic, keyword) ==
    LET keyword_lower == Lower(keyword)
    IN  IF In(keyword_lower, Lower(topic.name)) THEN TRUE
        ELSE IF topic.description # None /\ topic.description[1] # <<>>
                /\ In(keyword_lower, Lower(topic.description[1])) THEN TRUE
        ELSE \E i \in DOMAIN topic.subtopics :
                 In(keyword_lower, Lower(topic.subtopics[i]))

\* mutant: names compared as written
get_topic_by_name_exact(ts, name) ==
    First(ts, {i \in DOMAIN ts : ts[i].name = name})

get_topic_by_name(ts, name) ==
    First(ts, {i \in DOMAIN ts : Lower(ts[i].name) = Lower(name)})

search_topics(ts, keyword) ==
    SelectSeq(ts, LAMBDA t : contains_keyword(t, keyword))

get_all_topic_names(ts) == [i \in DOMAIN ts |-> ts[i].name]

\* ------------------------------------------------------------ input domains
QuestionIds == {1, 2, 3}

\* questions as the loader builds them: mapped_topic defaults to None
QuestionPool ==
    {Question(1, 10, None), Question(2, 10, None), Question(1, 0, None)}

\* names the topic-mapping step may write into mapped_topic
MappedTopicNames == {"Recursion", "Arrays", ""}

\* questions built with a mapped_topic, or with none
MappedQuestionPool ==
    {Question(q.question_id, q.points, t) :
        q \in QuestionPool, t \in {None} \cup {Some(n) : n \in MappedTopicNames}}

StudentIds == {"S1", "S2", "S3"}

Sections == {"A", "a", "B"}

StudentPool ==
    {Student("S1", "A", <<StudentResponse(1, 4), StudentResponse(2, 9)>>),
     Student("S2", "a", <<StudentResponse(1, 7), StudentResponse(3, 5)>>),
     Student("S1", "A", <<StudentResponse(1, 10), StudentResponse(1, 2)>>)}

Thresholds == {0, 70, 100}

STR_Iteration == <<"I", "t", "e", "r", "a", "t", "i", "o", "n">>

STR_Repeat == <<"R", "e", "p", "e", "a", "t">>

STR_ForLoops == <<"F", "o", "r", " ", "L", "o", "o", "p", "s">>

STR_Functions == <<"F", "u", "n", "c", "t", "i", "o", "n", "s">>

STR_functions == <<"f", "u", "n", "c", "t", "i", "o", "n", "s">>

STR_FUNCTIONS == <<"F", "U", "N", "C", "T", "I", "O", "N", "S">>

STR_Loop == <<"L", "o", "o", "p">>

STR_loop == <<"l", "o", "o", "p">>

STR_Loops == <<"L", "o", "o", "p", "s">>

STR_Scope == <<"S", "c", "o", "p", "e">>

STR_pe == <<"p", "e">>

STR_empty == <<>>

TopicPool ==
    {Topic(STR_Iteration, Some(STR_Repeat), <<STR_Scope, STR_ForLoops>>),
     Topic(STR_Functions, None, <<>>),
     Topic(STR_functions, Some(STR_Loop), <<STR_Scope>>),
     Topic(STR_Loops, Some(STR_empty), <<>>)}

TopicNameQueries == {STR_functions, STR_FUNCTIONS, STR_loop, STR_Loops}

Keywords == {STR_loop, STR_Loops, STR_FUNCTIONS, STR_pe, STR_empty}

\* ------------------------------------------------------------ state machine
Returned(op, args, val) == [op |-> op, args |-> args, val |-> val]

\* a call that returns nothing
NoReturn == Returned("", <<>>, None)

Init ==
    /\ questions = <<>>
    /\ students = <<>>
    /\ topics = <<>>
    /\ ret = NoReturn
    /\ addedQuestions = <<>>
    /\ addedStudents = <<>>
    /\ addedTopics = <<>>

quizVars == <<questions, students, addedQuestions, addedStudents>>

syllabusVars == <<topics, addedTopics>>

add_question(question) ==
    /\ Len(questions) < MaxQuestions
    /\ questions' = Append(questions, question)
    /\ addedQuestions' = Append(addedQuestions, question)
    /\ ret' = NoReturn
    /\ UNCHANGED <<students, addedStudents, syllabusVars>>

add_student(student) ==
    /\ Len(students) < MaxStudents
    /\ students' = Append(students, student)
    /\ addedStudents' = Append(addedStudents, student)
    /\ ret' = NoReturn
    /\ UNCHANGED <<questions, addedQuestions, syllabusVars>>

\* mutant: a topic whose name the syllabus already holds is not added
add_topic_unique(topic) ==
    /\ Len(addedTopics) < MaxTopics
    /\ topics' = IF \E i \in DOMAIN topics : topics[i].name = topic.name
                 THEN topics ELSE Append(topics, topic)
    /\ addedTopics' = Append(addedTopics, topic)
    /\ ret' = NoReturn
    /\ UNCHANGED quizVars

add_topic(topic) ==
    /\ Len(topics) < MaxTopics
    /\ topics' = Append(topics, topic)
    /\ addedTopics' = Append(addedTopics, topic)
    /\ ret' = NoReturn
    /\ UNCHANGED quizVars

\* the topic-mapping step copies primaryTopic into questions[i].mapped_topic;
\* the object passed to add_question and the list element are one object
set_mapped_topic(i, primary_topic) ==
    /\ i \in DOMAIN questions
    /\ questions' = [questions EXCEPT ![i].mapped_topic = Some(primary_topic)]
    /\ addedQuestions' =
           [addedQuestions EXCEPT ![i].mapped_topic = Some(primary_topic)]
    /\ ret' = NoReturn
    /\ UNCHANGED <<students, addedStudents, syllabusVars>>

\* a read: the collections are left alone, ret takes the returned value
Read(op, args, val) ==
    /\ ret' = Returned(op, args, val)
    /\ UNCHANGED <<quizVars, syllabusVars>>

Call_get_score_percentage(i, k, j) ==
    /\ i \in DOMAIN students
    /\ k \in DOMAIN students[i].responses
    /\ j \in DOMAIN questions
    /\ Read("get_score_percentage", <<i, k, j>>,
            get_score_percentage(students[i].responses[k], questions[j]))

Call_get_percentage(i) ==
    /\ i \in DOMAIN students
    /\ Read("get_percentage", <<i>>, get_percentage(students[i], questions))

Call_get_weak_topics(i, threshold) ==
    /\ i \in DOMAIN students
    /\ \E result \in get_weak_topics(students[i], questions, threshold) :
           Read("get_weak_topics", <<i, threshold>>, result)

Call_get_question_by_id(question_id) ==
    Read("get_question_by_id", <<question_id>>,
         get_question_by_id(questions, question_id))

Call_get_student_by_id(student_id) ==
    Read("get_student_by_id", <<student_id>>,
         get_student_by_id(students, student_id))

Call_get_class_average ==
    Read("get_class_average", <<>>, get_class_average(questions, students))

\* mutant: the student list itself is narrowed to the section
Call_get_students_by_section_inplace(section) ==
    /\ students' = get_students_by_section(students, section)
    /\ ret' = Returned("get_students_by_section", <<section>>, students')
    /\ UNCHANGED <<questions, addedQuestions, addedStudents, syllabusVars>>

Call_get_students_by_section(section) ==
    Read("get_students_by_section", <<section>>,
         get_students_by_section(students, section))

Call_get_section_average(section) ==
    Read("get_section_average", <<section>>,
         get_section_average(questions, students, section))

Call_get_all_sections ==
    \E result \in get_all_sections(students) :
        Read("get_all_sections", <<>>, result)

Call_get_topic_by_name(name) ==
    Read("get_topic_by_name", <<name>>, get_topic_by_name(topics, name))

Call_search_topics(keyword) ==
    Read("search_topics", <<keyword>>, search_topics(topics, keyword))

Call_get_all_topic_names ==
    Read("get_all_topic_names", <<>>, get_all_topic_names(topics))

\* ----------------------------------------------------------- specifications
AddQuestion == \E q \in QuestionPool : add_question(q)

AddMappedQuestion == \E q \in MappedQuestionPool : add_question(q)

AddStudent == \E s \in StudentPool : add_student(s)

AddTopic == \E t \in TopicPool : add_topic(t)

MapTopic ==
    \E i \in DOMAIN questions : \E t \in MappedTopicNames : set_mapped_topic(i, t)

ScorePercentage ==
    \E i \in DOMAIN students : \E k \in DOMAIN students[i].responses :
        \E j \in DOMAIN questions : Call_get_score_percentage(i, k, j)

Percentage == \E i \in DOMAIN students : Call_get_percentage(i)

WeakTopics ==
    \E i \in DOMAIN students : \E th \in Thresholds : Call_get_weak_topics(i, th)

QuestionById == \E id \in QuestionIds : Call_get_question_by_id(id)

StudentById == \E id \in StudentIds : Call_get_student_by_id(id)

StudentsBySection == \E sec \in Sections : Call_get_students_by_section(sec)

SectionAverage == \E sec \in Sections : Call_get_section_average(sec)

TopicByName == \E n \in TopicNameQueries : Call_get_topic_by_name(n)

SearchTopics == \E kw \in Keywords : Call_search_topics(kw)

\* scores, percentages and averages
NextScores ==
    \/ AddQuestion
    \/ AddStudent
    \/ ScorePercentage
    \/ Percentage
    \/ Call_get_class_average
    \/ SectionAverage

SpecScores == Init /\ [][NextScores]_vars

\* a quiz into which one student has been loaded
InitWeak ==
    /\ questions = <<>>
    /\ \E s \in StudentPool : students = <<s>>
    /\ topics = <<>>
    /\ ret = NoReturn
    /\ addedQuestions = <<>>
    /\ addedStudents = students
    /\ addedTopics = <<>>

\* weak-topic detection of that student while mapped questions are added
NextWeak ==
    \/ AddMappedQuestion
    \/ WeakTopics

SpecWeak == InitWeak /\ [][NextWeak]_vars

\* the append operations of both aggregates
NextAppend ==
    \/ AddQuestion
    \/ AddStudent
    \/ AddTopic
    \/ Call_get_all_topic_names

SpecAppend == Init /\ [][NextAppend]_vars

\* the identity lookups; Quiz and Syllabus are separate objects, a run loads and
\* queries one of them
NextLookup ==
    \/ topics = <<>> /\ AddQuestion
    \/ topics = <<>> /\ AddStudent
    \/ topics = <<>> /\ QuestionById
    \/ topics = <<>> /\ StudentById
    \/ questions = <<>> /\ students = <<>> /\ AddTopic
    \/ questions = <<>> /\ students = <<>> /\ TopicByName

SpecLookup == Init /\ [][NextLookup]_vars

\* the syllabus aggregate
NextSyllabus ==
    \/ AddTopic
    \/ TopicByName
    \/ SearchTopics
    \/ Call_get_all_topic_names

SpecSyllabus == Init /\ [][NextSyllabus]_vars

\* the topic-mapping step writing the primary topic of the course
MapPrimaryTopic == \E i \in DOMAIN questions : set_mapped_topic(i, "Recursion")

\* the questions that carry points are added
AddScoredQuestion ==
    \E q \in {x \in QuestionPool : x.points > 0} : add_question(q)

\* get_weak_topics called without a threshold: threshold = 70.0
WeakTopicsDefault == \E i \in DOMAIN students : Call_get_weak_topics(i, 70)

\* the quiz aggregate with every read operation
NextQuiz ==
    \/ AddScoredQuestion
    \/ AddStudent
    \/ MapPrimaryTopic
    \/ Percentage
    \/ WeakTopicsDefault
    \/ QuestionById
    \/ StudentById
    \/ Call_get_class_average
    \/ StudentsBySection
    \/ SectionAverage
    \/ Call_get_all_sections

SpecQuiz == Init /\ [][NextQuiz]_vars

\* every operation of both aggregates
Next ==
    \/ NextQuiz
    \/ AddQuestion
    \/ AddMappedQuestion
    \/ MapTopic
    \/ WeakTopics
    \/ ScorePercentage
    \/ AddTopic
    \/ TopicByName
    \/ SearchTopics
    \/ Call_get_all_topic_names

Spec == Init /\ [][Next]_vars

\* ------------------------------------------------------------------ claims
\* helpers of the claims, stated without the operators of the model

\* the sum of f[i] over the indices in S
RECURSIVE Sigma(_, _)
Sigma(f, S) ==
    IF S = {} THEN 0
    ELSE LET i == CHOOSE x \in S : TRUE IN f[i] + Sigma(f, S \ {i})

PointsEarned(student) ==
    Sigma([k \in DOMAIN student.responses |-> student.responses[k].points_earned],
          DOMAIN student.responses)

PointsPossible == Sigma([j \in DOMAIN questions |-> questions[j].points],
                        DOMAIN questions)

\* the indices of the questions holding the id a response refers to
Holders(response) ==
    {j \in DOMAIN questions : questions[j].question_id = response.question_id}

Dangling(response) == Holders(response) = {}

\* the question a response resolves to: the first one holding its id
Resolved(response) ==
    questions[CHOOSE j \in Holders(response) : \A h \in Holders(response) : j <= h]

\* the response's score percentage against q is strictly below th
Below(response, q, th) ==
    IF q.points = 0 THEN 0 < th
    ELSE 100 * response.points_earned < th * q.points

\* the responses of a student that resolve to a question mapped to T and score
\* below th against it
QualifyingResponses(student, th, T) ==
    {k \in DOMAIN student.responses :
        /\ ~Dangling(student.responses[k])
        /\ Resolved(student.responses[k]).mapped_topic = Some(T)
        /\ Below(student.responses[k], Resolved(student.responses[k]), th)}

Count(x, xs) == Cardinality({i \in DOMAIN xs : xs[i] = x})

\* C1: studentPercentage is the sum of points_earned over all responses of the
\* student (dangling ones included) over the sum of points over all questions
\* (unanswered ones included) times 100, and 0.0 when that total is 0.
C1_PercentageOverAll ==
    ret.op = "get_percentage" =>
        LET student == students[ret.args[1]]
        IN  IF PointsPossible = 0 THEN ret.val = Zero
            ELSE /\ ~IsExc(ret.val)
                 /\ ret.val.n * PointsPossible
                        = 100 * PointsEarned(student) * ret.val.d

\* C1 witness: a percentage was computed for a student with a dangling response
\* that earned points, on a quiz holding a question the student did not answer.
C1_Witness ==
    /\ ret.op = "get_percentage"
    /\ PointsPossible > 0
    /\ LET student == students[ret.args[1]]
       IN  /\ \E k \in DOMAIN student.responses :
                  /\ Dangling(student.responses[k])
                  /\ student.responses[k].points_earned > 0
           /\ \E j \in DOMAIN questions :
                  /\ questions[j].points > 0
                  /\ \A k \in DOMAIN student.responses :
                         student.responses[k].question_id # questions[j].question_id

\* C2 as stated: a topic name T is among the weak topics iff some response
\* resolves to a question whose mapped_topic is T and scores strictly below the
\* threshold against it.
C2_WeakTopicsIff_AsStated ==
    ret.op = "get_weak_topics" =>
        LET student == students[ret.args[1]]
            th == ret.args[2]
        IN  \A T \in MappedTopicNames :
                T \in Range(ret.val) <=> QualifyingResponses(student, th, T) # {}

\* C2 amended: the same equivalence for every non-empty topic name T; the empty
\* name is never returned, a question mapped to it counts as unmapped.
C2_WeakTopicsIff ==
    ret.op = "get_weak_topics" =>
        LET student == students[ret.args[1]]
            th == ret.args[2]
        IN  /\ Range(ret.val) \subseteq MappedTopicNames
            /\ \A T \in MappedTopicNames :
                   T \in Range(ret.val)
                       <=> (T # "" /\ QualifyingResponses(student, th, T) # {})

\* C2 witness: weak topics were computed and hold a topic, for a student with a
\* response below the threshold to a question mapped to the empty name.
C2_Witness ==
    /\ ret.op = "get_weak_topics"
    /\ ret.val # <<>>
    /\ QualifyingResponses(students[ret.args[1]], ret.args[2], "") # {}

\* C3 as stated: no topic name occurs twice in the result, and a name that
\* several responses below the threshold map to occurs exactly once.
C3_EachTopicOnce_AsStated ==
    ret.op = "get_weak_topics" =>
        LET student == students[ret.args[1]]
            th == ret.args[2]
        IN  \A T \in MappedTopicNames :
                /\ Count(T, ret.val) <= 1
                /\ Cardinality(QualifyingResponses(student, th, T)) >= 2
                       => Count(T, ret.val) = 1

\* C3 amended: no topic name occurs twice in the result, and a non-empty name
\* that several responses below the threshold map to occurs exactly once.
C3_EachTopicOnce ==
    ret.op = "get_weak_topics" =>
        LET student == students[ret.args[1]]
            th == ret.args[2]
        IN  \A T \in MappedTopicNames :
                /\ Count(T, ret.val) <= 1
                /\ (T # "" /\ Cardinality(QualifyingResponses(student, th, T)) >= 2)
                       => Count(T, ret.val) = 1

\* C3 witness: the result holds one name to which two responses to different
\* questions map, both below the threshold.
C3_Witness ==
    /\ ret.op = "get_weak_topics"
    /\ LET student == students[ret.args[1]]
           th == ret.args[2]
       IN  \E T \in MappedTopicNames \ {""} :
               /\ Count(T, ret.val) = 1
               /\ \E k1, k2 \in QualifyingResponses(student, th, T) :
                      student.responses[k1].question_id
                          # student.responses[k2].question_id

\* C10 as stated: for a threshold above 0, a response that resolves to a
\* question with points == 0 and a mapped_topic makes that topic weak.
C10_ZeroPointsWeak_AsStated ==
    (ret.op = "get_weak_topics" /\ ret.args[2] > 0) =>
        LET student == students[ret.args[1]]
        IN  \A k \in DOMAIN student.responses :
                (/\ ~Dangling(student.responses[k])
                 /\ Resolved(student.responses[k]).points = 0
                 /\ Resolved(student.responses[k]).mapped_topic # None)
                    => Resolved(student.responses[k]).mapped_topic[1]
                           \in Range(ret.val)

\* C10 amended: for a threshold above 0, a response that resolves (first match)
\* to a question with points == 0 and a non-empty mapped_topic makes that topic
\* weak, whatever points_earned it records.
C10_ZeroPointsWeak ==
    (ret.op = "get_weak_topics" /\ ret.args[2] > 0) =>
        LET student == students[ret.args[1]]
        IN  \A k \in DOMAIN student.responses :
                (/\ ~Dangling(student.responses[k])
                 /\ Resolved(student.responses[k]).points = 0
                 /\ Resolved(student.responses[k]).mapped_topic # None
                 /\ Resolved(student.responses[k]).mapped_topic[1] # "")
                    => Resolved(student.responses[k]).mapped_topic[1]
                           \in Range(ret.val)

\* C10 witness: a response that earned points on a zero-point question mapped
\* to a topic, and that topic is returned as weak.
C10_Witness ==
    /\ ret.op = "get_weak_topics"
    /\ ret.args[2] > 0
    /\ LET student == students[ret.args[1]]
       IN  \E k \in DOMAIN student.responses :
               /\ ~Dangling(student.responses[k])
               /\ student.responses[k].points_earned > 0
               /\ Resolved(student.responses[k]).points = 0
               /\ Truthy(Resolved(student.responses[k]).mapped_topic)
               /\ Resolved(student.responses[k]).mapped_topic[1] \in Range(ret.val)

\* C4: sectionAverage(X) is classAverage() of the same questions and only the
\* students whose section is exactly X, and 0.0 when there is none.
C4_SectionAverageIsRestrictedClassAverage ==
    ret.op = "get_section_average" =>
        LET X == ret.args[1]
            cohort == SelectSeq(students, LAMBDA s : s.section = X)
        IN  /\ ret.val = get_class_average(questions, cohort)
            /\ cohort = <<>> => ret.val = Zero

\* C4 witness: a section average over a section that has a student, next to a
\* student whose section differs only by case and whose percentage differs.
C4_Witness ==
    /\ ret.op = "get_section_average"
    /\ ret.args[1] = "A"
    /\ \E i, j \in DOMAIN students :
           /\ students[i].section = "A"
           /\ students[j].section = "a"
           /\ get_percentage(students[i], questions)
                  # get_percentage(students[j], questions)
    /\ ret.val # get_class_average(questions, students)

FloatOps ==
    {"get_score_percentage", "get_percentage", "get_class_average",
     "get_section_average"}

\* C5: scorePercentage, studentPercentage, classAverage and sectionAverage never
\* raise; they return 0.0 for a zero-point question, a zero total possible and
\* an empty set of students.
C5_NeverRaises ==
    /\ ret.op \in FloatOps => ~IsExc(ret.val)
    /\ (ret.op = "get_score_percentage" /\ questions[ret.args[3]].points = 0)
           => ret.val = Zero
    /\ (ret.op = "get_percentage" /\ PointsPossible = 0) => ret.val = Zero
    /\ (ret.op = "get_class_average" /\ students = <<>>) => ret.val = Zero
    /\ (ret.op = "get_section_average"
           /\ \A i \in DOMAIN students : students[i].section # ret.args[1])
           => ret.val = Zero

\* C5 witness: the score percentage of a response that earned points against a
\* zero-point question was computed and is 0.0.
C5_Witness ==
    /\ ret.op = "get_score_percentage"
    /\ questions[ret.args[3]].points = 0
    /\ students[ret.args[1]].responses[ret.args[2]].points_earned > 0
    /\ ret.val = Zero

\* two characters that are the same letter in different case
SameLetter(c1, c2) ==
    \E i \in DOMAIN UpperChars : {c1, c2} = {UpperChars[i], LowerChars[i]}

\* a and b read the same when case is ignored
EqIgnoreCase(a, b) ==
    /\ Len(a) = Len(b)
    /\ \A i \in DOMAIN a : a[i] = b[i] \/ SameLetter(a[i], b[i])

\* val is the first element of xs whose index is in hits, or None
IsFirstHit(val, xs, hits) ==
    IF hits = {} THEN val = None
    ELSE \E i \in hits : (\A j \in hits : i <= j) /\ val = Some(xs[i])

OccursIgnoringCase(kw, s) ==
    \E off \in 0..(Len(s) - Len(kw)) :
        \A i \in DOMAIN kw : kw[i] = s[off + i] \/ SameLetter(kw[i], s[off + i])

\* the keyword occurs in the name, in the description when present, or in a subtopic
Mentions(topic, kw) ==
    \/ OccursIgnoringCase(kw, topic.name)
    \/ topic.description # None /\ OccursIgnoringCase(kw, topic.description[1])
    \/ \E i \in DOMAIN topic.subtopics : OccursIgnoringCase(kw, topic.subtopics[i])

C8_AppendOnly ==
    /\ questions = addedQuestions
    /\ students = addedStudents
    /\ topics = addedTopics
    /\ ret.op = "get_all_topic_names" =>
           /\ Len(ret.val) = Len(addedTopics)
           /\ \A i \in DOMAIN ret.val : ret.val[i] = addedTopics[i].name

\* C8 witness: all three collections were filled, two questions share an id,
\* two students share an id and the names returned hold one name twice.
C8_Witness ==
    /\ ret.op = "get_all_topic_names"
    /\ Len(ret.val) = 2
    /\ ret.val[1] = ret.val[2]
    /\ Len(questions) = 2
    /\ questions[1].question_id = questions[2].question_id
    /\ Len(students) = 2
    /\ students[1].student_id = students[2].student_id

QuizReadOps ==
    {"get_question_by_id", "get_student_by_id", "get_percentage",
     "get_weak_topics", "get_class_average", "get_students_by_section",
     "get_section_average", "get_all_sections"}

\* the values the read op may return for args on questions qs and students ss
Recomputed(op, args, qs, ss) ==
    CASE op = "get_question_by_id" -> {get_question_by_id(qs, args[1])}
      [] op = "get_student_by_id" -> {get_student_by_id(ss, args[1])}
      [] op = "get_percentage" -> {get_percentage(ss[args[1]], qs)}
      [] op = "get_weak_topics" -> get_weak_topics(ss[args[1]], qs, args[2])
      [] op = "get_class_average" -> {get_class_average(qs, ss)}
      [] op = "get_students_by_section" -> {get_students_by_section(ss, args[1])}
      [] op = "get_section_average" -> {get_section_average(qs, ss, args[1])}
      [] op = "get_all_sections" -> get_all_sections(ss)

====
